---- MODULE Spec2Model ----
(***************************************************************************)
(* TermMatrix (xstate/python/terms/term_matrix.py): the group-by-term      *)
(* matrix df_matrix and the three computations made on it,                 *)
(* makeAggregationMatrix, makeTimeAggregationMatrix and calcClusters.      *)
(*                                                                         *)
(* A term label is a sequence of one-character strings, so that str.strip  *)
(* is computed and not assumed.  A group is a tuple of trinary values, one *)
(* per time point.  Numbers of the significance matrix are in thousandths  *)
(* (calcLogSL rounds to 3 decimals), and so are distances and thresholds.  *)
(* Python positions are 0-based: position pos reads element pos + 1 here.  *)
(***************************************************************************)
EXTENDS Integers, Sequences, FiniteSets, TLC

VARIABLES df_matrix, op, args, outcome, returned, repeated

vars == <<df_matrix, op, args, outcome, returned, repeated>>

----------------------------------------------------------------------------
(* Bounds of the model, program constants and input domains *)

MaxGroups == 2

MaxCols == 2

MaxPreds == 4

(* cn.NUM_TIMES: the number of time points, the length of every group tuple *)
NUM_TIMES == 3

(* fcluster(row_linkage, 0.1, criterion="distance"), in thousandths *)
CUT_DISTANCE == 100

Intensity == {0, 1}

GroupPool == << <<1, 0, -1>>, <<0, 1, 0>>, <<-1, -1, 0>> >>

LabelPool == << <<"A">>, <<"B">>, <<" ", "A">>, <<"B", " ">> >>

(* max_distance arguments tried: 0.05 and the default 1 *)
MaxDistances == {50, 1000}

----------------------------------------------------------------------------
(* Generic helpers *)

Range(s) == {s[i] : i \in DOMAIN s}

Min(S) == CHOOSE x \in S : \A y \in S : x <= y

RECURSIVE SortedSeq(_)
SortedSeq(S) == IF S = {} THEN <<>> ELSE <<Min(S)>> \o SortedSeq(S \ {Min(S)})

(* the subsequences of pool with at most max elements *)
SubSeqs(pool, max) ==
  { [i \in 1..Cardinality(S) |-> pool[SortedSeq(S)[i]]] :
      S \in {T \in SUBSET DOMAIN pool : Cardinality(T) <= max} }

RECURSIVE SumSeq(_)
SumSeq(s) == IF s = <<>> THEN 0 ELSE Head(s) + SumSeq(Tail(s))

Zeros(n) == [i \in 1..n |-> 0]

----------------------------------------------------------------------------
(* The matrix: index (groups), columns (term labels), data (rows of cells) *)

Matrix(g, c, d) == [index |-> g, columns |-> c, data |-> d]

Matrices ==
  UNION { { Matrix(g, c, d) : d \in [1..Len(g) -> [1..Len(c) -> Intensity]] } :
            g \in SubSeqs(GroupPool, MaxGroups), c \in SubSeqs(LabelPool, MaxCols) }

(* the matrix of the spec's scenario (section 8) *)
ScenarioMatrix ==
  Matrix(<< <<1, 0, -1>>, <<1, 1, 1>>, <<-1, -1, 0>> >>,
         << <<"A">>, <<"B">> >>,
         << <<2, 0>>, <<1, 3>>, <<0, 1>> >>)

(* a matrix of three terms, so that linkage makes more than one merge *)
ThreeTermMatrix ==
  Matrix(<< <<1, 0, -1>>, <<0, 1, 0>>, <<-1, 0, 1>> >>,
         << <<"A">>, <<"B">>, <<"C">> >>,
         << <<2, 0, 1>>, <<0, 3, 0>>, <<1, 0, 1>> >>)

----------------------------------------------------------------------------
(* Predicates on group tuples, and the predicate lists passed by callers *)

Always == [kind |-> "always", time |-> 0, sign |-> 0]

At(t, s) == [kind |-> "at", time |-> t, sign |-> s]

NotAt(t, s) == [kind |-> "not_at", time |-> t, sign |-> s]

Holds(predicate, group) ==
  CASE predicate.kind = "always" -> TRUE
    [] predicate.kind = "at" -> group[predicate.time + 1] = predicate.sign
    [] predicate.kind = "not_at" -> group[predicate.time + 1] # predicate.sign

(* two families of lists: every group; up / not up at time 0, in turn *)
PredicateFamilies ==
  { [i \in 1..MaxPreds |-> Always],
    [i \in 1..MaxPreds |-> IF i % 2 = 1 THEN At(0, 1) ELSE NotAt(0, 1)] }

PredicateLists == { SubSeq(f, 1, n) : f \in PredicateFamilies, n \in 0..MaxPreds }

----------------------------------------------------------------------------
(* str.strip on a label *)

RECURSIVE LStrip(_)
LStrip(s) == IF s # <<>> /\ Head(s) = " " THEN LStrip(Tail(s)) ELSE s

RECURSIVE RStrip(_)
RStrip(s) ==
  IF s # <<>> /\ s[Len(s)] = " " THEN RStrip(SubSeq(s, 1, Len(s) - 1)) ELSE s

Strip(s) == RStrip(LStrip(s))

(* column_values = {c.strip(): [] for c in columns}: the keys, in insertion order *)
RECURSIVE KeyOrder(_, _)
KeyOrder(columns, seen) ==
  IF columns = <<>> THEN <<>>
  ELSE LET k == Strip(Head(columns)) IN
       IF k \in seen THEN KeyOrder(Tail(columns), seen)
       ELSE <<k>> \o KeyOrder(Tail(columns), seen \cup {k})

EmptyColumnValues(columns) == [k \in {Strip(c) : c \in Range(columns)} |-> <<>>]

----------------------------------------------------------------------------
(* The row of one partition: the sum of the matching matrix rows *)

(* line 72: if group[pos] == 1 (the predicate itself is not called) *)
AggregationMatch(predicate, group, pos) == group[pos + 1] = 1

(* the match with the sign test loosened to "regulated at all" *)
TimeMatchAnySign(group, time, direction) == group[time + 1] # 0

(* line 119: if group[time] == direction *)
TimeMatch(group, time, direction) == group[time + 1] = direction

(* lines 109-112 *)
Direction(is_up_regulated) == IF is_up_regulated THEN 1 ELSE -1

(* the accumulation written as an assignment, row = values *)
AddRowsOverwrite(row, values) == values

(* row += values *)
AddRows(row, values) == [i \in DOMAIN row |-> row[i] + values[i]]

(* for group in self.df_matrix.index: ...; i is the next index position.
   kind "predicate": the loop of makeAggregationMatrix (what = the predicate);
   kind "time": the loop of makeTimeAggregationMatrix (what = the direction).
   Reading group[pos] past the end of the tuple raises IndexError. *)
RECURSIVE SumMatchingRows(_, _, _, _, _, _)
SumMatchingRows(m, kind, what, pos, i, row) ==
  IF i > Len(m.index) THEN [error |-> "ok", row |-> row]
  ELSE IF pos >= Len(m.index[i]) THEN [error |-> "IndexError", row |-> row]
  ELSE LET group == m.index[i]
           hit == IF kind = "predicate" THEN AggregationMatch(what, group, pos)
                  ELSE TimeMatch(group, pos, what)
       IN SumMatchingRows(m, kind, what, pos, i + 1,
                          IF hit THEN AddRows(row, m.data[i]) ELSE row)

(* for idx, col in enumerate(columns): column_values[col].append(row[idx]);
   a column whose label is not a key of column_values raises KeyError *)
RECURSIVE AppendRow(_, _, _, _)
AppendRow(cv, columns, row, idx) ==
  IF idx > Len(columns) THEN [error |-> "ok", cv |-> cv]
  ELSE IF columns[idx] \notin DOMAIN cv THEN [error |-> "KeyError", cv |-> cv]
  ELSE AppendRow([cv EXCEPT ![columns[idx]] = Append(@, row[idx])],
                 columns, row, idx + 1)

(* the loop over the partitions: positions pos .. n-1 *)
RECURSIVE PartitionLoop(_, _, _, _, _, _)
PartitionLoop(m, kind, whats, pos, n, cv) ==
  IF pos >= n THEN [error |-> "ok", cv |-> cv]
  ELSE LET s == SumMatchingRows(m, kind, whats[pos + 1], pos, 1,
                                Zeros(Len(m.columns)))
       IN IF s.error # "ok" THEN [error |-> s.error, cv |-> cv]
          ELSE LET a == AppendRow(cv, m.columns, s.row, 1)
               IN IF a.error # "ok" THEN a
                  ELSE PartitionLoop(m, kind, whats, pos + 1, n, a.cv)

(* pd.DataFrame(column_values): the columns are the keys, in order; the
   number of rows is the common length of the lists, 0 without columns *)
DataFrame(columns, cv) == [columns |-> KeyOrder(columns, {}), values |-> cv]

NoFrame == [columns |-> <<>>, values |-> <<>>]

NumRows(frame) ==
  IF frame.columns = <<>> THEN 0 ELSE Len(frame.values[frame.columns[1]])

(* makeAggregationMatrix: its outcome and the frame it returns *)
AggregationMatrix(m, predicates) ==
  LET r == PartitionLoop(m, "predicate", predicates, 0, Len(predicates),
                         EmptyColumnValues(m.columns))
  IN IF r.error = "ok" THEN [outcome |-> "ok", frame |-> DataFrame(m.columns, r.cv)]
     ELSE [outcome |-> r.error, frame |-> NoFrame]

(* makeTimeAggregationMatrix: its outcome and the frame it returns *)
TimeAggregationMatrix(m, is_up_regulated) ==
  LET r == PartitionLoop(m, "time",
                         [t \in 1..NUM_TIMES |-> Direction(is_up_regulated)],
                         0, NUM_TIMES, EmptyColumnValues(m.columns))
  IN IF r.error = "ok" THEN [outcome |-> "ok", frame |-> DataFrame(m.columns, r.cv)]
     ELSE [outcome |-> r.error, frame |-> NoFrame]

(* the accumulation made on the rows of df_matrix themselves (a view) *)
FrameAliased(m) ==
  [m EXCEPT !.data = [i \in DOMAIN m.data |->
                        [c \in DOMAIN m.data[i] |-> m.data[i][c] + m.data[1][c]]]]

(* values = np.array(self.df_matrix.loc[[group], :]) is a copy and row is a
   fresh array: the accumulation leaves df_matrix as it was *)
FrameAfterCall(m) == m

----------------------------------------------------------------------------
(* The statistics helpers (common_python.statistics.util_statistics) *)

IsConstant(profile) == \A i, j \in DOMAIN profile : profile[i] = profile[j]

(* filterZeroVarianceRows(df.T): the terms whose values over time are not
   all equal, in the order of the frame's columns *)
FilterZeroVarianceRows(frame) ==
  SelectSeq(frame.columns, LAMBDA k : ~IsConstant(frame.values[k]))

(* -log10 of the two-sided normal tail probability of z, in thousandths, at
   3 z^2 = 0, 1, 2, 3, 4 (z^2 is at most 4/3 over NUM_TIMES = 3 values) *)
SignificanceKnots == <<0, 249, 383, 499, 605>>

(* calcLogSL(df, round_decimal=3), one cell: z^2 = (n-1) D^2 / SUM D^2 with
   D = n v - SUM v, and the score interpolated between the knots *)
LogSL(profile, t) ==
  LET n == Len(profile)
      D == [i \in 1..n |-> n * profile[i] - SumSeq(profile)]
      sq == SumSeq([i \in 1..n |-> D[i] * D[i]])
      x == 3 * (n - 1) * D[t] * D[t]
      k == x \div sq
  IN IF k >= 4 THEN SignificanceKnots[5]
     ELSE SignificanceKnots[k + 1]
          + ((SignificanceKnots[k + 2] - SignificanceKnots[k + 1]) * (x - k * sq))
            \div sq

LogSLRow(profile) == [t \in 1..Len(profile) |-> LogSL(profile, t)]

----------------------------------------------------------------------------
(* The clustering primitives (scipy): pdist, linkage, fcluster.  Leaves are
   the positions 1..n of the rows of df_log; a node is its set of leaves. *)

(* the least d with d * d >= s, by bisection: lo * lo < s <= hi * hi *)
RECURSIVE CeilSqrtBetween(_, _, _)
CeilSqrtBetween(s, lo, hi) ==
  IF hi - lo <= 1 THEN hi
  ELSE LET mid == (lo + hi) \div 2
       IN IF mid * mid >= s THEN CeilSqrtBetween(s, lo, mid)
          ELSE CeilSqrtBetween(s, mid, hi)

RECURSIVE SqrtUpper(_, _)
SqrtUpper(s, d) == IF d * d >= s THEN d ELSE SqrtUpper(s, 2 * d)

CeilSqrt(s) == IF s = 0 THEN 0 ELSE CeilSqrtBetween(s, 0, SqrtUpper(s, 1))

(* distance.pdist(log_arrays): the Euclidean distance of two rows, rounded
   up to a thousandth (exact in every comparison with a whole threshold) *)
Euclidean(a, b) ==
  CeilSqrt(SumSeq([t \in DOMAIN a |-> (a[t] - b[t]) * (a[t] - b[t])]))

(* average linkage: the mean pairwise distance of two nodes, as num / den *)
PairSum(rows, X, Y) ==
  LET pairs == SortedSeq({(x - 1) * Len(rows) + (y - 1) : x \in X, y \in Y})
  IN SumSeq([i \in DOMAIN pairs |->
               Euclidean(rows[(pairs[i] \div Len(rows)) + 1],
                         rows[(pairs[i] % Len(rows)) + 1])])

AvgDist(rows, X, Y) ==
  [num |-> PairSum(rows, X, Y), den |-> Cardinality(X) * Cardinality(Y)]

Leq(h1, h2) == h1.num * h2.den <= h2.num * h1.den

(* linkage(..., method='average'): merge the two closest nodes until one is
   left; each merge records its two nodes and the distance of the merge *)
RECURSIVE LinkageFrom(_, _)
LinkageFrom(rows, nodes) ==
  IF Cardinality(nodes) < 2 THEN <<>>
  ELSE LET pairs == {p \in SUBSET nodes : Cardinality(p) = 2}
           dist(p) == LET X == CHOOSE X \in p : TRUE
                          Y == CHOOSE Y \in p : Y # X
                      IN AvgDist(rows, X, Y)
           best == CHOOSE p \in pairs : \A q \in pairs : Leq(dist(p), dist(q))
           X == CHOOSE X \in best : TRUE
           Y == CHOOSE Y \in best : Y # X
       IN << [left |-> X, right |-> Y, num |-> dist(best).num,
              den |-> dist(best).den, size |-> Cardinality(X \cup Y)] >>
          \o LinkageFrom(rows, (nodes \ best) \cup {X \cup Y})

(* linkage raises ValueError on fewer than two observations (an empty
   condensed distance matrix) *)
Linkage(rows) ==
  IF Len(rows) < 2 THEN [error |-> "ValueError", Z |-> <<>>]
  ELSE [error |-> "ok", Z |-> LinkageFrom(rows, {{i} : i \in 1..Len(rows)})]

Leaves(merge) == merge.left \cup merge.right

(* the distance at which two leaves are merged in the tree *)
Cophenetic(Z, i, j) ==
  LET joins == {k \in DOMAIN Z : {i, j} \subseteq Leaves(Z[k])}
  IN Z[Min(joins)]

(* fcluster(Z, t, criterion="distance"): a node is one flat cluster when no
   merge below it is made at a distance above t *)
IsFlat(Z, k, t) ==
  \A l \in DOMAIN Z :
     Leaves(Z[l]) \subseteq Leaves(Z[k]) => Z[l].num <= t * Z[l].den

SameFlat(Z, i, j, t) ==
  i = j \/ \E k \in DOMAIN Z : {i, j} \subseteq Leaves(Z[k]) /\ IsFlat(Z, k, t)

(* cluster ids 1, 2, ... numbered by the first leaf of each flat cluster *)
FCluster(Z, n, t) ==
  LET first(i) == Min({j \in 1..n : SameFlat(Z, i, j, t)})
      firsts == {first(i) : i \in 1..n}
  IN [i \in 1..n |-> Cardinality({f \in firsts : f <= first(i)})]

NoClusters == [df_log |-> <<>>, row_linkage |-> <<>>, ser_cluster |-> <<>>,
               index |-> <<>>]

(* calcClusters: the threshold of the cut is the literal 0.1, whatever
   max_distance is; nothing is checked between the filter and linkage *)
Clusters(m, max_distance, is_up_regulated) ==
  LET df == TimeAggregationMatrix(m, is_up_regulated)
  IN IF df.outcome # "ok"
     THEN [outcome |-> df.outcome, survivors |-> 0, value |-> NoClusters]
     ELSE
       LET index == FilterZeroVarianceRows(df.frame)
           df_log == [i \in 1..Len(index) |-> LogSLRow(df.frame.values[index[i]])]
           link == Linkage(df_log)
       IN IF link.error # "ok"
          THEN [outcome |-> link.error, survivors |-> Len(index),
                value |-> NoClusters]
          ELSE [outcome |-> "ok", survivors |-> Len(index),
                value |-> [df_log |-> df_log, row_linkage |-> link.Z,
                           ser_cluster |-> FCluster(link.Z, Len(index), CUT_DISTANCE),
                           index |-> index]]

----------------------------------------------------------------------------
(* The state machine: one action per public computation of TermMatrix.
   op, args, outcome and returned describe the latest call; repeated tells
   that the call before it was the same call with the same arguments. *)

NoArgs == [predicates |-> <<>>, is_up_regulated |-> TRUE, max_distance |-> 0]

Init ==
  /\ df_matrix \in Matrices \cup {ScenarioMatrix, ThreeTermMatrix}
  /\ op = "init"
  /\ args = NoArgs
  /\ outcome = "none"
  /\ returned = [frame |-> NoFrame, survivors |-> 0, clusters |-> NoClusters]
  /\ repeated = FALSE

makeAggregationMatrix(predicates) ==
  LET r == AggregationMatrix(df_matrix, predicates)
  IN /\ op' = "makeAggregationMatrix"
     /\ args' = [NoArgs EXCEPT !.predicates = predicates]
     /\ outcome' = r.outcome
     /\ returned' = [frame |-> r.frame, survivors |-> 0, clusters |-> NoClusters]
     /\ df_matrix' = FrameAfterCall(df_matrix)
     /\ repeated' = (op' = op /\ args' = args)

makeTimeAggregationMatrix(is_up_regulated) ==
  LET r == TimeAggregationMatrix(df_matrix, is_up_regulated)
  IN /\ op' = "makeTimeAggregationMatrix"
     /\ args' = [NoArgs EXCEPT !.is_up_regulated = is_up_regulated]
     /\ outcome' = r.outcome
     /\ returned' = [frame |-> r.frame, survivors |-> 0, clusters |-> NoClusters]
     /\ df_matrix' = FrameAfterCall(df_matrix)
     /\ repeated' = (op' = op /\ args' = args)

calcClusters(max_distance, is_up_regulated) ==
  LET r == Clusters(df_matrix, max_distance, is_up_regulated)
  IN /\ op' = "calcClusters"
     /\ args' = [NoArgs EXCEPT !.is_up_regulated = is_up_regulated,
                               !.max_distance = max_distance]
     /\ outcome' = r.outcome
     /\ returned' = [frame |-> NoFrame, survivors |-> r.survivors,
                     clusters |-> r.value]
     /\ df_matrix' = FrameAfterCall(df_matrix)
     /\ repeated' = (op' = op /\ args' = args)

Next ==
  \/ \E predicates \in PredicateLists : makeAggregationMatrix(predicates)
  \/ \E is_up_regulated \in BOOLEAN : makeTimeAggregationMatrix(is_up_regulated)
  \/ \E max_distance \in MaxDistances, is_up_regulated \in BOOLEAN :
        calcClusters(max_distance, is_up_regulated)

Spec == Init /\ [][Next]_vars

----------------------------------------------------------------------------
(* What the claims speak of *)

IsAggregation == op = "makeAggregationMatrix"

IsTimeAggregation == op = "makeTimeAggregationMatrix"

IsClustering == op = "calcClusters"

Groups == 1..Len(df_matrix.index)

Terms == 1..Len(df_matrix.columns)

(* the cell of the returned frame at row i (from 1) of the column of term c *)
Cell(i, c) == returned.frame.values[df_matrix.columns[c]][i]

(* the sum of the cells of term c of df_matrix over the groups in S *)
ColumnSum(S, c) ==
  LET gs == SortedSeq(S) IN SumSeq([k \in DOMAIN gs |-> df_matrix.data[gs[k]][c]])

SelectedSign == IF args.is_up_regulated THEN 1 ELSE -1

HasSpace(label) == \E i \in DOMAIN label : label[i] = " "

(* every group satisfies exactly one predicate of the list *)
IsTruePartition(predicates) ==
  \A g \in Groups :
     Cardinality({i \in DOMAIN predicates :
                    Holds(predicates[i], df_matrix.index[g])}) = 1

----------------------------------------------------------------------------
(* C1: row i of the result of makeAggregationMatrix is the sum of exactly
   the matrix rows whose group satisfies predicates[i].  The code tests
   group[i] == 1 instead of the predicate, so this fails. *)
C1_RowsFollowPredicates ==
  (IsAggregation /\ outcome = "ok") =>
     \A i \in DOMAIN args.predicates : \A c \in Terms :
        Cell(i, c) = ColumnSum({g \in Groups :
                                  Holds(args.predicates[i], df_matrix.index[g])}, c)

(* C2: row t of the result of makeTimeAggregationMatrix is, for every term,
   the sum of the rows of exactly the groups whose entry at t is the selected
   sign (+1 up, -1 down); an entry 0 or of the other sign adds nothing. *)
C2_TimeRowsMatchSign ==
  (IsTimeAggregation /\ outcome = "ok") =>
     \A t \in 1..NUM_TIMES : \A c \in Terms :
        Cell(t, c) = ColumnSum({g \in Groups :
                                  df_matrix.index[g][t] = SelectedSign}, c)

(* a time aggregation returned where, at one time, one group with a
   non-zero cell is counted, one entry 0 and one of the other sign are not *)
C2_Witness ==
  /\ IsTimeAggregation /\ outcome = "ok"
  /\ \E t \in 1..NUM_TIMES, c \in Terms :
       /\ \E g \in Groups : /\ df_matrix.index[g][t] = SelectedSign
                            /\ df_matrix.data[g][c] > 0
       /\ \E g \in Groups : /\ df_matrix.index[g][t] = 0
                            /\ df_matrix.data[g][c] > 0
  /\ \E t \in 1..NUM_TIMES, c \in Terms, g \in Groups :
       /\ df_matrix.index[g][t] = -SelectedSign
       /\ df_matrix.data[g][c] > 0

(* C3: the flat cut honours max_distance: two terms with the same cluster id
   were merged at a distance of at most max_distance, and two terms merged
   at a distance of at most max_distance have the same id.  The code cuts at
   0.1 whatever max_distance is, so this fails. *)
C3_CutHonoursMaxDistance ==
  (IsClustering /\ outcome = "ok") =>
     LET Z == returned.clusters.row_linkage
         id == returned.clusters.ser_cluster
     IN \A i, j \in DOMAIN id :
          i # j =>
            LET h == Cophenetic(Z, i, j)
            IN (id[i] = id[j]) <=> (h.num <= args.max_distance * h.den)

(* C4: the result of either aggregation has the columns of df_matrix, labels
   unchanged, none dropped or merged, whatever the labels.  The code keys its
   lists by the stripped label, so this fails for a label with surrounding
   whitespace.  (A call ended by IndexError is left to C8.) *)
C4_ColumnsPreserved ==
  ((IsAggregation \/ IsTimeAggregation) /\ outcome # "IndexError") =>
     /\ outcome = "ok"
     /\ returned.frame.columns = df_matrix.columns

(* C5: when the predicates are a true partition of the groups, the rows of
   the result of makeAggregationMatrix add up to the column sums of
   df_matrix.  Fails with C1: the predicates are not what selects the rows. *)
C5_Conservation ==
  (IsAggregation /\ outcome = "ok" /\ IsTruePartition(args.predicates)) =>
     \A c \in Terms :
        df_matrix.columns[c] \in DOMAIN returned.frame.values =>
          SumSeq(returned.frame.values[df_matrix.columns[c]]) = ColumnSum(Groups, c)

(* C6 as stated: on the matrix of the scenario,
   makeTimeAggregationMatrix(True) returns rows {A:3,B:3}, {A:1,B:3} and
   {A:0,B:0}.  Fails: group (1,1,1) is up at time 2, so row 2 is its row. *)
C6_ScenarioAsStated ==
  (df_matrix = ScenarioMatrix /\ IsTimeAggregation /\ args.is_up_regulated) =>
     /\ outcome = "ok"
     /\ returned.frame.columns = << <<"A">>, <<"B">> >>
     /\ returned.frame.values[<<"A">>] = <<3, 1, 0>>
     /\ returned.frame.values[<<"B">>] = <<3, 3, 0>>

(* C6, amended: on the matrix of the scenario, makeTimeAggregationMatrix(True)
   returns rows {A:3,B:3}, {A:1,B:3} and {A:1,B:3}: at time 2 group (1,1,1),
   and only it, is counted. *)
C6_Scenario ==
  (df_matrix = ScenarioMatrix /\ IsTimeAggregation /\ args.is_up_regulated) =>
     /\ outcome = "ok"
     /\ returned.frame.columns = << <<"A">>, <<"B">> >>
     /\ returned.frame.values[<<"A">>] = <<3, 1, 1>>
     /\ returned.frame.values[<<"B">>] = <<3, 3, 3>>

(* the scenario's up-regulated time aggregation has been made *)
C6_Witness ==
  /\ df_matrix = ScenarioMatrix /\ IsTimeAggregation /\ args.is_up_regulated
  /\ NumRows(returned.frame) = NUM_TIMES

(* C7: when fewer than two terms survive the zero-variance filter,
   calcClusters ends in EmptyInputError or DegenerateInputError.  The code
   checks nothing and hands the rows to linkage, so this fails. *)
C7_DegenerateInputIsExplicitError ==
  (IsClustering /\ outcome # "KeyError" /\ returned.survivors < 2) =>
     outcome \in {"EmptyInputError", "DegenerateInputError"}

(* C8: makeAggregationMatrix returns exactly one row per predicate, for any
   number of predicates and any matrix, also one without columns, and
   makeTimeAggregationMatrix exactly NUM_TIMES rows.  Fails: past the length
   of the group tuples the call raises IndexError, and a frame without
   columns has no rows.  (A call ended by KeyError is left to C4.) *)
C8_RowCount ==
  ((IsAggregation \/ IsTimeAggregation) /\ outcome # "KeyError") =>
     /\ outcome = "ok"
     /\ NumRows(returned.frame) =
          IF IsAggregation THEN Len(args.predicates) ELSE NUM_TIMES

C10_PredicatesIgnored ==
  IsAggregation =>
     LET P == Len(args.predicates)
         time == TimeAggregationMatrix(df_matrix, TRUE)
     IN /\ P <= NUM_TIMES =>
             /\ outcome = "ok" /\ time.outcome = "ok"
             /\ returned.frame.columns = time.frame.columns
             /\ \A k \in DOMAIN returned.frame.values :
                   returned.frame.values[k] = SubSeq(time.frame.values[k], 1, P)
        /\ (P > NUM_TIMES /\ Groups # {}) => outcome = "IndexError"

(* what remains of C10 on labels without whitespace: checked, not claimed *)
PredicatesIgnoredOnCleanLabels ==
  (\A c \in Terms : ~HasSpace(df_matrix.columns[c])) => C10_PredicatesIgnored

====
